---- MODULE Spec2Model ----
(***************************************************************************)
(* Petcare (src/app.py): a Flask application over a relational store with  *)
(* two tables (users, bookings), a lazily run seed initializer, public     *)
(* read and write endpoints and a session-gated admin area.                *)
(*                                                                         *)
(* The store is the committed content of the two tables.  Every worker     *)
(* handles one request at a time; a handler is split exactly at its        *)
(* storage calls, which are the points where workers interleave.           *)
(* A row's id is its position in the table (autoincrement, no deletes).    *)
(* Ratings are kept in tenths (4.8 is 48).                                 *)
(***************************************************************************)
EXTENDS Integers, Sequences, FiniteSets, TLC

\* ---------------------------------------------------------------- bounds
MaxUsers == 5
MaxBookings == 2
MaxRestarts == 1
MaxFailures == 2
MaxRows == 2

Workers == {"w1", "w2"}
SoloWorker == {"w1"}
Sessions == {"s1", "s2"}

VARIABLES
    tables,          \* db.create_all() has created the two tables
    users,           \* committed rows of the users table, in id order
    bookings,        \* committed rows of the bookings table, in id order
    db_initialized,  \* the process-wide flag of init_database
    session,         \* per browser session: session.get('admin_logged_in')
    worker,          \* per worker: position in its handler, pending db.session rows
    ev,              \* what the last step returned or answered (NoEvent: nothing)
    restarts,        \* process restarts so far
    failures,        \* storage failures injected so far
    created201,      \* history: 201 answers given by create_booking
    lastAuth         \* history: per session, the last login-with-match or logout

vars == <<tables, users, bookings, db_initialized, session, worker, ev,
          restarts, failures, created201, lastAuth>>

\* ------------------------------------------------------------ domain model

\* The four sample professionals of init_database, with the fields the handlers read.
SeedProfessionals ==
    << [name |-> "Dr. Marco Rossi", email |-> "marco.rossi@petcare.it",
        user_type |-> "professional",
        profession |-> "Veterinario", city |-> "Milano", rating |-> 48,
        is_verified |-> TRUE, is_active |-> TRUE],
       [name |-> "Laura Bianchi", email |-> "laura.bianchi@petcare.it",
        user_type |-> "professional",
        profession |-> "Toelettatore", city |-> "Roma", rating |-> 49,
        is_verified |-> TRUE, is_active |-> TRUE],
       [name |-> "Giuseppe Verde", email |-> "giuseppe.verde@petcare.it",
        user_type |-> "professional",
        profession |-> "Dog Sitter", city |-> "Napoli", rating |-> 47,
        is_verified |-> TRUE, is_active |-> TRUE],
       [name |-> "Sofia Russo", email |-> "sofia.russo@petcare.it",
        user_type |-> "professional",
        profession |-> "Addestratore Cinofilo", city |-> "Torino", rating |-> 49,
        is_verified |-> TRUE, is_active |-> TRUE] >>

Emails(tbl) == {tbl[i].email : i \in 1..Len(tbl)}

\* A mutant of EmailUnique: the column carries no unique constraint.
EmailNotConstrained(tbl, rows) == TRUE

\* users.email is unique=True: a commit of `rows` onto `tbl` passes the constraint.
EmailUnique(tbl, rows) ==
    /\ \A i \in 1..Len(rows) : rows[i].email \notin Emails(tbl)
    /\ \A i, j \in 1..Len(rows) : rows[i].email = rows[j].email => i = j

\* dict.get(key, default); a payload is a function from its keys to their values.
Get(data, key, default) == IF key \in DOMAIN data THEN data[key] ELSE default

\* request.get_json() gave None (no JSON body, or the JSON value null).
NoJson == [none |-> TRUE]

\* Python truthiness of a payload (None and {} are false) and of a string value.
TruthyData(data) == data # NoJson /\ DOMAIN data # {}
Truthy(v) == v # ""

NoEvent == [op |-> "none"]

Idle == [pc |-> "idle", kind |-> "none", sid |-> "", pending |-> <<>>]

\* ------------------------------------------------------------------- Init

Init ==
    /\ tables = FALSE
    /\ users = <<>>
    /\ bookings = <<>>
    /\ db_initialized = FALSE
    /\ session = [s \in Sessions |-> FALSE]
    /\ worker = [w \in Workers |-> Idle]
    /\ ev = NoEvent
    /\ restarts = 0
    /\ failures = 0
    /\ created201 = 0
    /\ lastAuth = [s \in Sessions |-> "none"]

\* What a step leaves alone besides the variables it names.
Store == <<tables, users, bookings>>
Admin == <<session, lastAuth>>
Env == <<restarts, failures>>

\* ---------------------------------------------------------- init_database

\* A request of `kind` arrives at an idle worker whose handler starts with init_database().
Begin(w, kind) ==
    /\ worker[w].pc = "idle"
    /\ worker' = [worker EXCEPT ![w] = [pc |-> "init_check", kind |-> kind,
                                       sid |-> "", pending |-> <<>>]]
    /\ ev' = NoEvent
    /\ UNCHANGED <<Store, db_initialized, Admin, Env, created201>>

\* if User.query.count() == 0
SeedNeeded(tbl) == Len(tbl) = 0

\* A mutant of InitFailFlag: the except branch records the initialization as done.
InitFailFlagSet(flag) == TRUE

\* The except branch of init_database does not touch db_initialized.
InitFailFlag(flag) == flag

\* if db_initialized: return True
InitCheckReturnsEarly(flag) == flag

InitCheck(w) ==
    /\ worker[w].pc = "init_check"
    /\ IF InitCheckReturnsEarly(db_initialized)
       THEN /\ worker' = [worker EXCEPT ![w].pc = "body"]
            /\ ev' = [op |-> "init_database", ret |-> TRUE, early |-> TRUE]
       ELSE /\ worker' = [worker EXCEPT ![w].pc = "init_create"]
            /\ ev' = NoEvent
    /\ UNCHANGED <<Store, db_initialized, Admin, Env, created201>>

\* db.create_all(): creates the tables that are absent.
InitCreate(w) ==
    /\ worker[w].pc = "init_create"
    /\ tables' = TRUE
    /\ worker' = [worker EXCEPT ![w].pc = "init_count"]
    /\ ev' = NoEvent
    /\ UNCHANGED <<users, bookings, db_initialized, Admin, Env, created201>>

\* User.query.count() == 0, then db.session.add of the four professionals.
InitCount(w) ==
    /\ worker[w].pc = "init_count"
    /\ IF SeedNeeded(users)
       THEN worker' = [worker EXCEPT ![w].pc = "init_commit", ![w].pending = SeedProfessionals]
       ELSE worker' = [worker EXCEPT ![w].pc = "init_flag"]
    /\ ev' = NoEvent
    /\ UNCHANGED <<Store, db_initialized, Admin, Env, created201>>

\* db.session.commit() of the seed rows: all four, or IntegrityError and rollback.
InitCommit(w) ==
    /\ worker[w].pc = "init_commit"
    /\ IF EmailUnique(users, worker[w].pending)
       THEN /\ users' = users \o worker[w].pending
            /\ worker' = [worker EXCEPT ![w].pc = "init_flag", ![w].pending = <<>>]
            /\ ev' = NoEvent
            /\ UNCHANGED db_initialized
       ELSE /\ users' = users
            /\ worker' = [worker EXCEPT ![w].pc = "body", ![w].pending = <<>>]
            /\ ev' = [op |-> "init_database", ret |-> FALSE, early |-> FALSE]
            /\ db_initialized' = InitFailFlag(db_initialized)
    /\ UNCHANGED <<tables, bookings, Admin, Env, created201>>

\* db_initialized = True; return True
InitFlag(w) ==
    /\ worker[w].pc = "init_flag"
    /\ db_initialized' = TRUE
    /\ worker' = [worker EXCEPT ![w].pc = "body"]
    /\ ev' = [op |-> "init_database", ret |-> TRUE, early |-> FALSE]
    /\ UNCHANGED <<Store, Admin, Env, created201>>

\* A storage call of init_database (create_all, the count, the commit) raises:
\* the except branch rolls back and returns False.
InitFail(w) ==
    /\ worker[w].pc \in {"init_create", "init_count", "init_commit"}
    /\ failures < MaxFailures
    /\ failures' = failures + 1
    /\ worker' = [worker EXCEPT ![w].pc = "body", ![w].pending = <<>>]
    /\ ev' = [op |-> "init_database", ret |-> FALSE, early |-> FALSE]
    /\ db_initialized' = InitFailFlag(db_initialized)
    /\ UNCHANGED <<Store, Admin, restarts, created201>>

\* The process is restarted: the flag and the requests in flight are lost, the store stays.
Restart ==
    /\ restarts < MaxRestarts
    /\ restarts' = restarts + 1
    /\ db_initialized' = FALSE
    /\ worker' = [w \in Workers |-> Idle]
    /\ ev' = NoEvent
    /\ UNCHANGED <<Store, Admin, failures, created201>>

\* ------------------------------------------------------------------ home

BeginHome(w) == Begin(w, "home")

\* return render_template('index.html')
HomeBody(w) ==
    /\ worker[w].pc = "body"
    /\ worker[w].kind = "home"
    /\ worker' = [worker EXCEPT ![w] = Idle]
    /\ ev' = [op |-> "home", status |-> 200]
    /\ UNCHANGED <<Store, db_initialized, Admin, Env, created201>>

\* ------------------------------------------------------ get_professionals

\* request.args.get(name) of a parameter the query string does not carry (None).
Absent == "<absent>"

FilterProfessions == {Absent, "", "Veterinario"}
FilterCities == {Absent, "", "Milano"}

\* `if profession:` / `if city:` - None and the empty string both skip the filter.
FilterGiven(f) == f # Absent /\ f # ""

\* A mutant of Listed: the is_active condition is dropped.
ListedIgnoringActive(tbl, i, profession, city) ==
    /\ tbl[i].user_type = "professional"
    /\ FilterGiven(profession) => tbl[i].profession = profession
    /\ FilterGiven(city) => tbl[i].city = city

\* filter_by(user_type='professional', is_active=True), then the filters given.
Listed(tbl, i, profession, city) ==
    /\ tbl[i].user_type = "professional"
    /\ tbl[i].is_active
    /\ FilterGiven(profession) => tbl[i].profession = profession
    /\ FilterGiven(city) => tbl[i].city = city

\* order_by(User.rating.desc()): which row comes next; rows of equal rating in any order.
NextByRatingDesc(tbl, S) == {i \in S : \A j \in S : tbl[j].rating <= tbl[i].rating}

\* Every order the storage engine may return the rows S of tbl in.
RECURSIVE OrderByRating(_, _)
OrderByRating(tbl, S) ==
    IF S = {} THEN {<<>>}
    ELSE UNION {{<<i>> \o t : t \in OrderByRating(tbl, S \ {i})} : i \in NextByRatingDesc(tbl, S)}

\* `x or fallback`
OrElse(x, fallback) == IF x = "" THEN fallback ELSE x

\* One element of the JSON array of get_professionals.
Summary(tbl, i) ==
    [id |-> i,
     profession |-> OrElse(tbl[i].profession, "Professionista"),
     city |-> OrElse(tbl[i].city, "N/A"),
     rating |-> tbl[i].rating,
     is_verified |-> tbl[i].is_verified]

BeginList(w) == Begin(w, "get_professionals")

\* The handler after init_database, for a query string drawn from the given values.
ListBody(w, professions, cities) ==
    /\ worker[w].pc = "body"
    /\ worker[w].kind = "get_professionals"
    /\ worker' = [worker EXCEPT ![w] = Idle]
    /\ \E profession \in professions, city \in cities :
          IF ~tables
          THEN ev' = [op |-> "get_professionals", status |-> 500,
                      profession |-> profession, city |-> city, body |-> <<>>]
          ELSE \E order \in OrderByRating(users,
                       {i \in 1..Len(users) : Listed(users, i, profession, city)}) :
                  ev' = [op |-> "get_professionals", status |-> 200,
                         profession |-> profession, city |-> city,
                         body |-> [k \in 1..Len(order) |-> Summary(users, order[k])]]
    /\ UNCHANGED <<Store, db_initialized, Admin, Env, created201>>

\* ------------------------------------------------------- get_professional

DetailIds == {1, 9999}

\* The handler starts with its query: it does not call init_database.
GetProfessional(w) ==
    /\ worker[w].pc = "idle"
    /\ \E prof_id \in DetailIds :
          ev' = [op |-> "get_professional", id |-> prof_id,
                 status |-> IF ~tables THEN 500
                            ELSE IF /\ prof_id \in 1..Len(users)
                                    /\ users[prof_id].user_type = "professional"
                                    /\ users[prof_id].is_active
                                 THEN 200 ELSE 404]
    /\ UNCHANGED <<Store, db_initialized, Admin, Env, created201, worker>>

\* --------------------------------------------------------------- register

RegEmails == {"anna@example.com", "marco.rossi@petcare.it"}

RegisterPayloads ==
    {NoJson, <<>>, [name |-> "Anna"], [name |-> "", email |-> "anna@example.com"]}
    \cup {[name |-> "Anna", email |-> e] : e \in RegEmails}
    \cup {[name |-> "Anna", email |-> e, user_type |-> t] :
             e \in RegEmails, t \in {"professional", "admin"}}

\* User(name=..., email=..., user_type=data.get('user_type', 'client'), ...) with the
\* column defaults rating=0.0, is_verified=False, is_active=True.
NewUser(data) ==
    [name |-> data["name"],
     email |-> data["email"],
     user_type |-> Get(data, "user_type", "client"),
     profession |-> Get(data, "profession", ""),
     city |-> Get(data, "city", ""),
     rating |-> 0,
     is_verified |-> FALSE,
     is_active |-> TRUE]

BeginRegister(w) ==
    /\ Len(users) < MaxUsers
    /\ Begin(w, "register")

\* not (not data or not data.get('name') or not data.get('email'))
RegisterValid(data) ==
    /\ TruthyData(data)
    /\ Truthy(Get(data, "name", ""))
    /\ Truthy(Get(data, "email", ""))

\* User.query.filter_by(email=data['email']).first()
EmailTaken(tbl, email) == email \in Emails(tbl)

\* request.get_json(), the validation and the email lookup.
RegisterLookup(w) ==
    /\ worker[w].pc = "body"
    /\ worker[w].kind = "register"
    /\ \E data \in RegisterPayloads :
          IF ~RegisterValid(data)
          THEN /\ worker' = [worker EXCEPT ![w] = Idle]
               /\ ev' = [op |-> "register", status |-> 400,
                         error |-> "Nome e email sono obbligatori", data |-> data]
          ELSE IF ~tables
          THEN /\ worker' = [worker EXCEPT ![w] = Idle]
               /\ ev' = [op |-> "register", status |-> 500,
                         error |-> "Errore durante la registrazione", data |-> data]
          ELSE IF EmailTaken(users, data["email"])
          THEN /\ worker' = [worker EXCEPT ![w] = Idle]
               /\ ev' = [op |-> "register", status |-> 400,
                         error |-> "Email già registrata", data |-> data]
          ELSE /\ worker' = [worker EXCEPT ![w].pc = "reg_commit",
                                           ![w].pending = <<NewUser(data)>>]
               /\ ev' = NoEvent
    /\ UNCHANGED <<Store, db_initialized, Admin, Env, created201>>

\* db.session.add(new_user); db.session.commit() - or IntegrityError, rollback and 500.
RegisterCommit(w) ==
    /\ worker[w].pc = "reg_commit"
    /\ worker' = [worker EXCEPT ![w] = Idle]
    /\ IF EmailUnique(users, worker[w].pending)
       THEN /\ users' = users \o worker[w].pending
            /\ ev' = [op |-> "register", status |-> 201,
                      error |-> "",
                      data |-> [name |-> worker[w].pending[1].name,
                                email |-> worker[w].pending[1].email],
                      user_id |-> Len(users) + 1]
       ELSE /\ users' = users
            /\ ev' = [op |-> "register", status |-> 500,
                      error |-> "Errore durante la registrazione",
                      data |-> [name |-> worker[w].pending[1].name,
                                email |-> worker[w].pending[1].email]]
    /\ UNCHANGED <<tables, bookings, db_initialized, Admin, Env, created201>>

\* --------------------------------------------------------- create_booking

RequiredFields == {"client_id", "professional_id", "service_type", "booking_date"}

\* The strings datetime.fromisoformat accepts, among those the requests carry.
IsoDates == {"2025-06-01T10:00:00"}

FullBookings ==
    {[f \in RequiredFields |->
         CASE f = "client_id" -> c
           [] f = "professional_id" -> 2
           [] f = "service_type" -> "Visita"
           [] f = "booking_date" -> d] :
       c \in {1, 9999}, d \in IsoDates \cup {"domani"}}

\* No JSON object, every payload with all four fields, and for every proper subset of
\* the fields one payload that carries exactly those.
BookingPayloads ==
    {NoJson} \cup FullBookings
    \cup {[f \in K |-> (CHOOSE b \in FullBookings : TRUE)[f]] :
             K \in (SUBSET RequiredFields) \ {RequiredFields}}

\* A mutant of NewBooking: the two foreign keys are swapped.
NewBookingSwapped(data) ==
    [client_id |-> data["professional_id"],
     professional_id |-> data["client_id"],
     service_type |-> data["service_type"],
     status |-> "pending"]

\* Booking(...) with the column default status='pending'.
NewBooking(data) ==
    [client_id |-> data["client_id"],
     professional_id |-> data["professional_id"],
     service_type |-> data["service_type"],
     status |-> "pending"]

\* Both foreign keys name rows of the users table.
ForeignKeysHold(tbl, b) ==
    b.client_id \in 1..Len(tbl) /\ b.professional_id \in 1..Len(tbl)

BeginBooking(w) ==
    /\ Len(bookings) < MaxBookings
    /\ Begin(w, "create_booking")

\* The answer of create_booking: `field in data` on None raises TypeError (500);
\* a missing field is 400; a date fromisoformat rejects, a missing table and a
\* foreign key the engine enforces and finds dangling all raise (500).
BookingStatus(data, tbls, tbl, enforced) ==
    IF data = NoJson THEN 500
    ELSE IF ~(RequiredFields \subseteq DOMAIN data) THEN 400
    ELSE IF data["booking_date"] \notin IsoDates THEN 500
    ELSE IF ~tbls THEN 500
    ELSE IF enforced /\ ~ForeignKeysHold(tbl, NewBooking(data)) THEN 500
    ELSE 201

\* The whole handler after init_database: one storage call, the commit.
\* `enforced`: whether the engine checks foreign keys (PostgreSQL does, SQLite
\* as configured here does not).
CreateBooking(w) ==
    /\ worker[w].pc = "body"
    /\ worker[w].kind = "create_booking"
    /\ worker' = [worker EXCEPT ![w] = Idle]
    /\ \E data \in BookingPayloads, enforced \in BOOLEAN :
          LET status == BookingStatus(data, tables, users, enforced) IN
          /\ ev' = [op |-> "create_booking", status |-> status, data |-> data]
          /\ IF status = 201
             THEN /\ bookings' = Append(bookings, NewBooking(data))
                  /\ created201' = created201 + 1
             ELSE UNCHANGED <<bookings, created201>>
    /\ UNCHANGED <<tables, users, db_initialized, Admin, Env>>

\* ------------------------------------------------------------------ admin

\* os.environ.get('ADMIN_USERNAME', 'admin'), os.environ.get('ADMIN_PASSWORD', 'admin123')
AdminUser == "admin"
AdminPass == "admin123"

\* request.form.get(...) of the login form; None when the field is missing.
Usernames == {"admin", "guest", "<none>"}
Passwords == {"admin123", "letmein", "<none>"}

\* A mutant of CredentialsMatch: the password is not compared.
CredentialsMatchUserOnly(username, password) == username = AdminUser

\* username == admin_user and password == admin_pass
CredentialsMatch(username, password) == username = AdminUser /\ password = AdminPass

\* GET and POST /admin/login; only a POST compares the credentials.
AdminLogin(w, s) ==
    /\ worker[w].pc = "idle"
    /\ \E method \in {"GET", "POST"}, username \in Usernames, password \in Passwords :
          /\ IF method = "POST" /\ CredentialsMatch(username, password)
             THEN /\ session' = [session EXCEPT ![s] = TRUE]
                  /\ ev' = [op |-> "admin_login", sid |-> s, status |-> 302,
                            to |-> "admin_dashboard"]
             ELSE /\ session' = session
                  /\ ev' = [op |-> "admin_login", sid |-> s, status |-> 200,
                            to |-> IF method = "POST" THEN "Credenziali non valide" ELSE ""]
          /\ lastAuth' = [lastAuth EXCEPT ![s] =
                            IF method = "POST" /\ username = "admin" /\ password = "admin123"
                            THEN "login" ELSE @]
    /\ UNCHANGED <<Store, db_initialized, worker, Env, created201>>

\* GET /admin/logout: session.clear()
AdminLogout(w, s) ==
    /\ worker[w].pc = "idle"
    /\ session' = [session EXCEPT ![s] = FALSE]
    /\ lastAuth' = [lastAuth EXCEPT ![s] = "logout"]
    /\ ev' = [op |-> "admin_logout", sid |-> s, status |-> 302, to |-> "admin_login"]
    /\ UNCHANGED <<Store, db_initialized, worker, Env, created201>>

\* session.get('admin_logged_in')
Authorized(flag) == flag

\* GET /admin/dashboard up to init_database()
BeginDashboard(w, s) ==
    /\ worker[w].pc = "idle"
    /\ IF ~Authorized(session[s])
       THEN /\ worker' = worker
            /\ ev' = [op |-> "admin_dashboard", sid |-> s, status |-> 302,
                      to |-> "admin_login"]
       ELSE /\ worker' = [worker EXCEPT ![w] =
                            [pc |-> "init_check", kind |-> "admin_dashboard",
                             sid |-> s, pending |-> <<>>]]
            /\ ev' = NoEvent
    /\ UNCHANGED <<Store, db_initialized, Admin, Env, created201>>

DashboardBody(w) ==
    /\ worker[w].pc = "body"
    /\ worker[w].kind = "admin_dashboard"
    /\ worker' = [worker EXCEPT ![w] = Idle]
    /\ ev' = [op |-> "admin_dashboard", sid |-> worker[w].sid, status |-> 200, to |-> ""]
    /\ UNCHANGED <<Store, db_initialized, Admin, Env, created201>>

\* Query.count() over the rows of a table that satisfy the filter_by conditions.
Professionals(utbl) == {i \in 1..Len(utbl) : utbl[i].user_type = "professional"}
Clients(utbl) == {i \in 1..Len(utbl) : utbl[i].user_type = "client"}
Pending(btbl) == {i \in 1..Len(btbl) : btbl[i].status = "pending"}

\* The six counters of admin_stats.
StatsOf(utbl, btbl) ==
    [total_users |-> Len(utbl),
     total_professionals |-> Cardinality(Professionals(utbl)),
     total_clients |-> Cardinality(Clients(utbl)),
     verified_professionals |->
         Cardinality({i \in Professionals(utbl) : utbl[i].is_verified}),
     total_bookings |-> Len(btbl),
     pending_bookings |-> Cardinality(Pending(btbl))]

\* GET /api/admin/stats up to init_database()
BeginStats(w, s) ==
    /\ worker[w].pc = "idle"
    /\ IF ~Authorized(session[s])
       THEN /\ worker' = worker
            /\ ev' = [op |-> "admin_stats", sid |-> s, status |-> 401,
                      error |-> "Non autorizzato"]
       ELSE /\ worker' = [worker EXCEPT ![w] =
                            [pc |-> "init_check", kind |-> "admin_stats",
                             sid |-> s, pending |-> <<>>]]
            /\ ev' = NoEvent
    /\ UNCHANGED <<Store, db_initialized, Admin, Env, created201>>

\* The six count queries and jsonify(stats).
StatsBody(w) ==
    /\ worker[w].pc = "body"
    /\ worker[w].kind = "admin_stats"
    /\ worker' = [worker EXCEPT ![w] = Idle]
    /\ IF ~tables
       THEN ev' = [op |-> "admin_stats", sid |-> worker[w].sid, status |-> 500,
                   error |-> "Errore nel recupero delle statistiche"]
       ELSE ev' = [op |-> "admin_stats", sid |-> worker[w].sid, status |-> 200,
                   stats |-> StatsOf(users, bookings)]
    /\ UNCHANGED <<Store, db_initialized, Admin, Env, created201>>

\* ------------------------------------------------------- specifications

InitSteps(w) ==
    \/ InitCheck(w)
    \/ InitCreate(w)
    \/ InitCount(w)
    \/ InitCommit(w)
    \/ InitFlag(w)

\* The public endpoints, handled by concurrent workers of a process that may restart.
Next ==
    \/ \E w \in Workers :
          \/ BeginHome(w)
          \/ BeginList(w)
          \/ BeginRegister(w)
          \/ BeginBooking(w)
          \/ InitSteps(w)
          \/ HomeBody(w)
          \/ ListBody(w, {Absent}, {Absent, "Milano"})
          \/ GetProfessional(w)
          \/ RegisterLookup(w)
          \/ RegisterCommit(w)
          \/ CreateBooking(w)
    \/ Restart

Spec == Init /\ [][Next]_vars

\* The admin area over a store that registrations and bookings change; one worker.
NextAdmin ==
    \E w \in SoloWorker :
       \/ \E s \in Sessions :
             \/ AdminLogin(w, s)
             \/ AdminLogout(w, s)
             \/ BeginDashboard(w, s)
             \/ BeginStats(w, s)
       \/ InitSteps(w)
       \/ DashboardBody(w)
       \/ StatsBody(w)
       \/ BeginRegister(w)
       \/ RegisterLookup(w)
       \/ RegisterCommit(w)
       \/ BeginBooking(w)
       \/ CreateBooking(w)

SpecAdmin == Init /\ [][NextAdmin]_vars

\* Rows a users table may hold, for the listing taken alone.
QueryRows ==
    [name : {"Anna"},
     user_type : {"client", "professional"},
     profession : {"", "Veterinario"},
     city : {"", "Milano"},
     rating : {48, 49},
     is_verified : {TRUE},
     is_active : BOOLEAN]

QueryEmails == <<"a@example.com", "b@example.com", "c@example.com", "d@example.com">>

WithEmail(row, i) ==
    [name |-> row.name, email |-> QueryEmails[i], user_type |-> row.user_type,
     profession |-> row.profession,
     city |-> row.city, rating |-> row.rating, is_verified |-> row.is_verified,
     is_active |-> row.is_active]

\* An initialized process over any users table of up to MaxRows rows.
InitQuery ==
    /\ tables = TRUE
    /\ \E n \in 0..MaxRows : \E rows \in [1..n -> QueryRows] :
          users = [i \in 1..n |-> WithEmail(rows[i], i)]
    /\ bookings = <<>>
    /\ db_initialized = TRUE
    /\ session = [s \in Sessions |-> FALSE]
    /\ worker = [w \in Workers |-> Idle]
    /\ ev = NoEvent
    /\ restarts = 0
    /\ failures = 0
    /\ created201 = 0
    /\ lastAuth = [s \in Sessions |-> "none"]

NextQuery ==
    \E w \in SoloWorker :
       \/ BeginList(w)
       \/ InitCheck(w)
       \/ ListBody(w, FilterProfessions, FilterCities)

SpecQuery == InitQuery /\ [][NextQuery]_vars

\* init_database under storage failures.
NextFail ==
    \/ \E w \in Workers :
          \/ BeginHome(w)
          \/ InitCheck(w)
          \/ InitCreate(w)
          \/ InitCount(w)
          \/ InitCommit(w)
          \/ InitFlag(w)
          \/ InitFail(w)
          \/ HomeBody(w)
    \/ Restart

SpecFail == Init /\ [][NextFail]_vars

\* ------------------------------------------------------------ properties

SeedEmails == Emails(SeedProfessionals)

\* The rows of the users table that carry a seed email, in id order.
SeedRows(tbl) == SelectSeq(tbl, LAMBDA u : u.email \in SeedEmails)

IsPrefix(s, t) == Len(s) <= Len(t) /\ SubSeq(t, 1, Len(s)) = s

\* C1: in every reachable state no two rows of the users table have the same
\* email, whatever the interleaving of register requests and seed insertions and
\* whatever the user_type of the rows.
C1_EmailsDistinct ==
    \A i, j \in 1..Len(users) : users[i].email = users[j].email => i = j

\* C1 witness: a register that passed its lookup lost the race, its commit was
\* refused by the constraint while a row with its email is in the table.
C1_RaceRefused ==
    /\ ev.op = "register"
    /\ ev.status = 500
    /\ ev.data["email"] = "anna@example.com"
    /\ \E i \in 1..Len(users) : users[i].email = "anna@example.com"

\* C2 (as claimed): whenever a register request that carries a name and an email
\* is answered while a row with that email is in the users table, the answer is
\* 400 'Email già registrata' and the users table is unchanged - also when the row
\* was committed by a concurrent register after this request's lookup.
C2_DuplicateIs400 ==
    [][(/\ ev'.op = "register"
        /\ RegisterValid(ev'.data)
        /\ ev'.data["email"] \in Emails(users))
       => (/\ ev'.status = 400
           /\ ev'.error = "Email già registrata"
           /\ users' = users)]_vars

\* C3: from an empty store, after any number of init_database calls (repeated,
\* after a restart that resets db_initialized, or interleaved by workers that all
\* saw the flag False and the count 0) the users table holds exactly one set of
\* the four seed rows: never eight, never a part of the set.
C3_OneSeedSet ==
    /\ SeedRows(users) \in {<<>>, SeedProfessionals}
    /\ ev.op = "init_database" => SeedRows(users) = SeedProfessionals
    /\ db_initialized => SeedRows(users) = SeedProfessionals

\* C3 witness: a worker that saw the count 0 had its seed commit refused, because
\* another worker seeded in between; the table holds the four rows once.
C3_SecondSeedRefused ==
    /\ ev.op = "init_database"
    /\ ~ev.ret
    /\ users = SeedProfessionals

\* What a successful get_professionals answer must hold, a filter counting as given
\* when it is present and, unless emptyIsGiven, not the empty string.
ListAnswerIs(emptyIsGiven) ==
    LET given(f) == f # Absent /\ (emptyIsGiven \/ f # "")
        want == {i \in 1..Len(users) :
                    /\ users[i].user_type = "professional"
                    /\ users[i].is_active
                    /\ given(ev.profession) => users[i].profession = ev.profession
                    /\ given(ev.city) => users[i].city = ev.city}
    IN /\ {ev.body[k].id : k \in 1..Len(ev.body)} = want
       /\ Len(ev.body) = Cardinality(want)
       /\ \A k \in 1..Len(ev.body) : ev.body[k].rating = users[ev.body[k].id].rating
       /\ \A k \in 1..(Len(ev.body) - 1) : ev.body[k].rating >= ev.body[k + 1].rating

\* C4 (amended): a successful get_professionals answer holds exactly the rows with
\* user_type 'professional' and is_active true that match every filter given with a
\* non-empty value (an empty filter is ignored like an absent one), in an order in
\* which rating never increases; with no matching row it is the empty array, 200.
C4_ListNonEmptyFilters ==
    ev.op = "get_professionals" =>
        /\ ev.status = 200
        /\ ListAnswerIs(FALSE)

\* C4 (as claimed): every filter the request supplies, the empty one included, is
\* matched exactly.
C4_ListSuppliedFilters ==
    (ev.op = "get_professionals" /\ ev.status = 200) =>
        ListAnswerIs(TRUE)

\* C4 witness: a listing with an empty profession filter and a city filter answers
\* two professionals of that city, of different professions, in falling rating order.
C4_EmptyFilterOrdered ==
    /\ ev.op = "get_professionals"
    /\ ev.status = 200
    /\ ev.profession = ""
    /\ ev.city = "Milano"
    /\ Len(ev.body) = 2
    /\ ev.body[1].rating > ev.body[2].rating
    /\ ev.body[1].profession # ev.body[2].profession

\* C5: a session starts LoggedOut and is LoggedIn exactly when its last login with
\* the configured credentials has no logout after it (so no other login logs it
\* in); admin_stats answers 401 without counters to a LoggedOut session and 200
\* with the six counters of the store to a LoggedIn one; admin_dashboard redirects
\* a LoggedOut session to the login page.
C5_AdminSession ==
    /\ \A s \in Sessions : session[s] <=> lastAuth[s] = "login"
    /\ ev.op = "admin_stats" =>
          IF session[ev.sid]
          THEN ev.status = 200 /\ ev.stats = StatsOf(users, bookings)
          ELSE ev.status = 401 /\ "stats" \notin DOMAIN ev
    /\ ev.op = "admin_dashboard" =>
          IF session[ev.sid]
          THEN ev.status = 200
          ELSE ev.status = 302 /\ ev.to = "admin_login"
    /\ \A w \in Workers :
          worker[w].kind \in {"admin_stats", "admin_dashboard"} => session[worker[w].sid]

\* C5 witness: the counters are served to a logged-in session over a store with a
\* registered user and a booking, while the other session has logged out.
C5_StatsServed ==
    /\ ev.op = "admin_stats"
    /\ ev.status = 200
    /\ ev.stats.total_users = 5
    /\ ev.stats.total_bookings = 1
    /\ lastAuth[IF ev.sid = "s1" THEN "s2" ELSE "s1"] = "logout"

C7_MissingFieldIs400 ==
    (ev.op = "create_booking" /\ ~(RequiredFields \subseteq DOMAIN ev.data)) =>
        ev.status = 400

\* C8 (as claimed): every users row has user_type 'client' or 'professional', so
\* total_users = total_professionals + total_clients.
C8_UserTypeDomain ==
    /\ \A i \in 1..Len(users) : users[i].user_type \in {"client", "professional"}
    /\ StatsOf(users, bookings).total_users =
          StatsOf(users, bookings).total_professionals
          + StatsOf(users, bookings).total_clients

\* The handlers of the public API that touch the store.
StoreHandlers == {"get_professionals", "get_professional", "register", "create_booking"}

\* C9 (as claimed): a handler that reads or writes the store answers only after
\* init_database has run in its request, so it finds the tables and the seed rows;
\* get_professional for a seed id returns that professional.
C9_InitBeforeQuery ==
    /\ ev.op \in StoreHandlers => tables /\ SeedRows(users) = SeedProfessionals
    /\ (ev.op = "get_professional" /\ ev.id \in 1..Len(SeedProfessionals)) =>
          ev.status = 200

\* C10: a failing init_database call returns False, changes neither db_initialized
\* nor the tables (none of its seed rows is committed) and leaves nothing pending;
\* a call returns early only when the flag is set, so the call after a failure runs
\* the whole initialization; the flag becomes True only at the end of a call that
\* created the tables and found or committed rows; within a process it never
\* returns to False; the seed rows are committed all four or not at all.
C10_InitFailure ==
    [][/\ (ev'.op = "init_database" /\ ~ev'.ret) =>
             /\ db_initialized' = db_initialized
             /\ users' = users
             /\ bookings' = bookings
             /\ \A w \in Workers :
                   worker'[w] # worker[w] =>
                      worker'[w].pc = "body" /\ worker'[w].pending = <<>>
       /\ \A w \in Workers :
             (worker[w].pc = "init_check" /\ worker'[w].pc = "body") => db_initialized
       /\ \A w \in Workers :
             (worker[w].pc = "init_check" /\ ~db_initialized /\ worker'[w] # worker[w]
              /\ restarts' = restarts) => worker'[w].pc = "init_create"
       /\ (~db_initialized /\ db_initialized') =>
             /\ ev'.op = "init_database" /\ ev'.ret /\ ~ev'.early
             /\ tables /\ Len(users) > 0
       /\ (db_initialized /\ ~db_initialized') => restarts' = restarts + 1
       /\ users' \in {users, users \o SeedProfessionals}]_vars

\* C10 witness: a second init_database call failed after the first had failed, with
\* the tables created, no row committed and the flag still False.
C10_FailedTwice ==
    /\ ev.op = "init_database"
    /\ ~ev.ret
    /\ failures = 2
    /\ tables
    /\ users = <<>>
    /\ ~db_initialized
====
